---- MODULE Spec2Model ----
(***************************************************************************)
(* Sparkify ELT pipeline with the Write-Audit-Publish pattern.             *)
(*                                                                         *)
(* Five state machines share this module:                                  *)
(*   Spec         one run of the DAG sparkify_elt_wap: the task graph and  *)
(*                the scheduling of its task instances (default trigger    *)
(*                rule all_success, retries of DEFAULT_ARGS);              *)
(*   SpecRuns     the scheduler over successive runs (max_active_runs,     *)
(*                depends_on_past) of the graph built from any             *)
(*                configuration lists;                                     *)
(*   SpecPublish  PublishProductionOperator.execute, statement by          *)
(*                statement, on one table, from any production and         *)
(*                working table contents, with failing statements, task    *)
(*                retries and republication of the reloaded working table; *)
(*   SpecChain    one table's Write -> Audit -> Publish chain over         *)
(*                successive runs, with the tables' contents;              *)
(*   SpecStage    StageToRedshiftOperator.execute, statement by statement, *)
(*                on one staging table, from any staging table contents.   *)
(***************************************************************************)
EXTENDS Integers, Sequences, FiniteSets, Bags, TLC

VARIABLES
    state,        \* DAG run: task instance -> its state
    try_number,   \* DAG run: unfinished task instance -> tries started
    failures,     \* tries (Spec) or statements (other specs) that failed so far
    load_mode,    \* table configuration: config['load_mode']
    pk_columns,   \* table configuration: config.get('pk_columns', [])
    checks,       \* table configuration: config['checks'], in iteration order
    ds,           \* context["ds"], the run date
    prod,         \* prod.<table>: a bag of rows
    audit,        \* audit.<table>, the working table: a bag of rows
    chain,        \* the table's task instances of the run -> their states
    tries,        \* tries started by the unfinished task instance of the chain
    pc,           \* the statement the executing operator runs next, or "-"
    log,          \* statements run so far by the current execute()
    failedAt,     \* where the last execute() of the task instance raised
    publishes,    \* Publish task instances that succeeded so far
    loaded,       \* rows the Write of the run put in the working table
    prodStart,    \* prod.<table> when the run began
    auditStart,   \* audit.<table> when the run began
    prodRun,      \* prod.<table> when the Publish instance was first tried
    auditRun,     \* audit.<table> when the Publish instance was first tried
    prod0,        \* prod.<table> when the current execute() began
    audit0,       \* audit.<table> when the current execute() began
    audited,      \* audit.<table> when the Audit of the run passed
    delete_by_date, \* staging configuration: config['delete_by_date']
    staging,      \* staging.<table>: a bag of rows
    s3_rows,      \* the rows of the S3 object(s) the COPY of the run reads
    stagingStart, \* staging.<table> when the run began
    dag,          \* scheduler: the DAG built from the configuration lists
    ti,           \* scheduler: run -> task instance -> its state
    ti_try,       \* scheduler: run -> unfinished task instance -> tries started
    nruns         \* scheduler: DAG runs created so far

vars == <<state, try_number, failures, load_mode, pk_columns, checks, ds, prod,
          audit, chain, tries, pc, log, failedAt, publishes, loaded, prodStart,
          auditStart, prodRun, auditRun, prod0, audit0, audited,
          delete_by_date, staging, s3_rows, stagingStart, dag, ti, ti_try,
          nruns>>

dagVars == <<state, try_number>>
config == <<load_mode, pk_columns, checks>>
history == <<publishes, loaded, prodStart, auditStart, prodRun, auditRun,
             prod0, audit0, audited>>
stageVars == <<delete_by_date, staging, s3_rows, stagingStart>>
runVars == <<dag, ti, ti_try, nruns>>
tableVars == <<config, ds, prod, audit, chain, tries, pc, log, failedAt, history,
               stageVars, runVars>>

(***************************************************************************)
(* Bounds of the model.                                                    *)
(***************************************************************************)
\* Tries that fail in one DAG run (a task fails for good after retries + 1).
MaxTaskFailures == 4
\* Rows of the production table in an initial state.
MaxProdRows == 2
\* Rows a transform query returns.
MaxAuditRows == 2
\* SQL statements that fail in one behaviour of SpecPublish, SpecChain or
\* SpecStage.
MaxFailures == 1
\* Rows of the staging table in an initial state.
MaxStagingRows == 2
\* Rows a COPY loads.
MaxCopyRows == 2
\* Publications of one table in one behaviour of SpecPublish.
MaxPublishes == 2
\* The values of the key column, besides NULL.
Ids == {0, 1}
\* The run dates, one run each, in this order.
Dates == {1, 2}

(***************************************************************************)
(* Configuration (plugins/helpers/pipeline_config.py) and DEFAULT_ARGS.    *)
(***************************************************************************)
STAGING_CONFIG == <<"staging_events", "staging_songs">>
FACT_CONFIG == <<"fct_songplays">>
DIMENSION_CONFIG == <<"dim_users", "dim_songs", "dim_artists", "dim_times">>

\* DEFAULT_ARGS['retries']
retries == 3

Range(s) == {s[i] : i \in DOMAIN s}

(***************************************************************************)
(* The task graph built by sparkify_elt_wap().  A task is <<kind, table>>. *)
(***************************************************************************)
start_task == <<"Start_execution", "">>
end_task == <<"End_execution", "">>

\* create_staging_tasks(config): one StageToRedshiftOperator
create_staging_tasks(table) == <<"stage", table>>

write_task(table) == <<"write", table>>
audit_task(table) == <<"audit", table>>
publish_task(table) == <<"publish", table>>

\* Faulty variant: Audit and Publish both set downstream of Write.
WapSequence_fork(table) ==
    { <<write_task(table), audit_task(table)>>,
      <<write_task(table), publish_task(table)>> }

\* write_task >> audit_task >> publish_task
WapSequence(table) ==
    { <<write_task(table), audit_task(table)>>,
      <<audit_task(table), publish_task(table)>> }

\* A task group: its tasks, its inner edges, its roots and its leaves.
\* `x >> group` makes x upstream of the group's roots, `group >> x` makes
\* the group's leaves upstream of x.
create_fact_table_group(table) ==
    [ tasks  |-> {write_task(table), audit_task(table), publish_task(table)},
      edges  |-> WapSequence(table),
      roots  |-> {write_task(table)},
      leaves |-> {publish_task(table)} ]

create_dimension_table_group(table) ==
    [ tasks  |-> {write_task(table), audit_task(table), publish_task(table)},
      edges  |-> WapSequence(table),
      roots  |-> {write_task(table)},
      leaves |-> {publish_task(table)} ]

staging_tasks == { create_staging_tasks(t) : t \in Range(STAGING_CONFIG) }
fact_groups == { create_fact_table_group(t) : t \in Range(FACT_CONFIG) }
dimension_groups ==
    { create_dimension_table_group(t) : t \in Range(DIMENSION_CONFIG) }

Tasks ==
    {start_task, end_task} \cup staging_tasks
      \cup UNION { g.tasks : g \in fact_groups \cup dimension_groups }

\* Faulty variant: staging tasks wired to the fact groups pairwise, by position.
Edges_matched ==
    { <<start_task, s>> : s \in staging_tasks }
      \cup { <<create_staging_tasks(STAGING_CONFIG[i]), write_task(FACT_CONFIG[i])>> :
                i \in DOMAIN STAGING_CONFIG \cap DOMAIN FACT_CONFIG }
      \cup { <<l, r>> : l \in UNION { g.leaves : g \in fact_groups },
                        r \in UNION { g.roots : g \in dimension_groups } }
      \cup { <<l, end_task>> : l \in UNION { g.leaves : g \in dimension_groups } }
      \cup UNION { g.edges : g \in fact_groups \cup dimension_groups }

\* Faulty variant: the dimension groups chained one after the other.
Edges_chained ==
    { <<start_task, s>> : s \in staging_tasks }
      \cup { <<s, r>> : s \in staging_tasks,
                        r \in UNION { g.roots : g \in fact_groups } }
      \cup { <<l, r>> : l \in UNION { g.leaves : g \in fact_groups },
                        r \in UNION { g.roots : g \in dimension_groups } }
      \cup { <<publish_task(DIMENSION_CONFIG[i]), write_task(DIMENSION_CONFIG[i + 1])>> :
                i \in 1 .. (Len(DIMENSION_CONFIG) - 1) }
      \cup { <<l, end_task>> : l \in UNION { g.leaves : g \in dimension_groups } }
      \cup UNION { g.edges : g \in fact_groups \cup dimension_groups }

\* The dependencies set in sparkify_elt_wap(): pairs <<upstream, downstream>>.
Edges ==
    { <<start_task, s>> : s \in staging_tasks }
      \cup { <<s, r>> : s \in staging_tasks,
                        r \in UNION { g.roots : g \in fact_groups } }
      \cup { <<l, r>> : l \in UNION { g.leaves : g \in fact_groups },
                        r \in UNION { g.roots : g \in dimension_groups } }
      \cup { <<l, end_task>> : l \in UNION { g.leaves : g \in dimension_groups } }
      \cup UNION { g.edges : g \in fact_groups \cup dimension_groups }

Upstream(t) == { u \in Tasks : <<u, t>> \in Edges }

\* DummyOperator: a marker, nothing to execute.
IsMarker(t) == t \in {start_task, end_task}

(***************************************************************************)
(* Spec: one DAG run.  Task instance states are Airflow's.                 *)
(***************************************************************************)
\* No task instance of the DAG run has been started.
DagIdle ==
    /\ state = [t \in Tasks |-> "none"]
    /\ try_number = [t \in Tasks |-> 0]

\* No scheduling over runs is modelled.
RunsIdle == dag = <<>> /\ ti = <<>> /\ ti_try = <<>> /\ nruns = 0

\* No staging table is modelled.
StageIdle ==
    /\ delete_by_date = FALSE /\ staging = EmptyBag /\ s3_rows = EmptyBag
    /\ stagingStart = EmptyBag

TableIdle ==
    /\ StageIdle
    /\ load_mode = "-" /\ pk_columns = <<>> /\ checks = <<>> /\ ds = 0
    /\ prod = EmptyBag /\ audit = EmptyBag /\ chain = <<>> /\ tries = 0
    /\ pc = "-" /\ log = <<>> /\ failedAt = "-" /\ publishes = 0
    /\ loaded = EmptyBag /\ prodStart = EmptyBag /\ auditStart = EmptyBag
    /\ prodRun = EmptyBag
    /\ auditRun = EmptyBag /\ prod0 = EmptyBag /\ audit0 = EmptyBag
    /\ audited = EmptyBag

Init ==
    /\ state = [t \in Tasks |-> "none"]
    /\ try_number = [t \in Tasks |-> 0]
    /\ failures = 0
    /\ TableIdle
    /\ RunsIdle

\* Faulty variant: trigger rule all_done, every upstream task has finished.
TriggerRuleMet_all_done(t) ==
    \A u \in Upstream(t) : state[u] \in {"success", "failed", "upstream_failed"}

\* Trigger rule all_success (the default): every upstream task succeeded.
TriggerRuleMet(t) == \A u \in Upstream(t) : state[u] = "success"

\* The scheduler starts a try of a task instance.
TaskStart(t) ==
    /\ state[t] \in {"none", "up_for_retry"}
    /\ TriggerRuleMet(t)
    /\ state' = [state EXCEPT ![t] = "running"]
    /\ try_number' = [try_number EXCEPT ![t] = @ + 1]
    /\ UNCHANGED <<failures, tableVars>>

\* execute() returns.  The try count of a finished instance is read by
\* nothing: it is dropped.
TaskSucceed(t) ==
    /\ state[t] = "running"
    /\ state' = [state EXCEPT ![t] = "success"]
    /\ try_number' = [try_number EXCEPT ![t] = 0]
    /\ UNCHANGED <<failures, tableVars>>

\* execute() raises and tries are left: retries = 3.
TaskRetry(t) ==
    /\ state[t] = "running"
    /\ ~IsMarker(t)
    /\ failures < MaxTaskFailures
    /\ try_number[t] <= retries
    /\ state' = [state EXCEPT ![t] = "up_for_retry"]
    /\ failures' = failures + 1
    /\ UNCHANGED <<try_number, tableVars>>

\* execute() raises and the retries are exhausted.
TaskFail(t) ==
    /\ state[t] = "running"
    /\ ~IsMarker(t)
    /\ failures < MaxTaskFailures
    /\ try_number[t] > retries
    /\ state' = [state EXCEPT ![t] = "failed"]
    /\ failures' = failures + 1
    /\ UNCHANGED <<try_number, tableVars>>

\* all_success with a failed (or upstream_failed) upstream task: the task
\* instance is set to upstream_failed and never runs.
TaskUpstreamFailed(t) ==
    /\ state[t] = "none"
    /\ \E u \in Upstream(t) : state[u] \in {"failed", "upstream_failed"}
    /\ state' = [state EXCEPT ![t] = "upstream_failed"]
    /\ UNCHANGED <<try_number, failures, tableVars>>

Next ==
    \/ \E t \in Tasks : TaskStart(t)
    \/ \E t \in Tasks : TaskSucceed(t)
    \/ \E t \in Tasks : TaskRetry(t)
    \/ \E t \in Tasks : TaskFail(t)
    \/ \E t \in Tasks : TaskUpstreamFailed(t)

Spec == Init /\ [][Next]_vars

(***************************************************************************)
(* SpecRuns: the scheduler over the successive runs of the DAG that        *)
(* sparkify_elt_wap() builds from any three configuration lists.           *)
(***************************************************************************)
\* sparkify_elt_wap(): the tasks and the dependencies built from the lists.
sparkify_elt_wap(staging_config, fact_config, dimension_config) ==
    LET stages == { create_staging_tasks(t) : t \in Range(staging_config) }
        facts == { create_fact_table_group(t) : t \in Range(fact_config) }
        dims == { create_dimension_table_group(t) :
                    t \in Range(dimension_config) }
    IN  [ staging_config |-> staging_config,
          fact_config |-> fact_config,
          dimension_config |-> dimension_config,
          tasks |-> {start_task, end_task} \cup stages
                      \cup UNION { g.tasks : g \in facts \cup dims },
          edges |->
            { <<start_task, s>> : s \in stages }
              \cup { <<s, r>> : s \in stages,
                                r \in UNION { g.roots : g \in facts } }
              \cup { <<l, r>> : l \in UNION { g.leaves : g \in facts },
                                r \in UNION { g.roots : g \in dims } }
              \cup { <<l, end_task>> : l \in UNION { g.leaves : g \in dims } }
              \cup UNION { g.edges : g \in facts \cup dims } ]

\* The configuration lists tried: the lists of pipeline_config.py cut after
\* any number of entries (after two for the dimensions), the empty lists
\* included.
Prefixes(s) == { SubSeq(s, 1, k) : k \in 0 .. Len(s) }
StagingLists == Prefixes(STAGING_CONFIG)
FactLists == Prefixes(FACT_CONFIG)
DimensionLists == Prefixes(<<DIMENSION_CONFIG[1], DIMENSION_CONFIG[2]>>)

\* The runs of the schedule, in this order.
Runs == {1, 2}

\* Faulty variant: every run of the schedule may be active at once.
max_active_runs_unlimited == Cardinality(Runs)

\* @dag(max_active_runs=1)
max_active_runs == 1

InitRuns ==
    /\ DagIdle
    /\ failures = 0
    /\ TableIdle
    /\ \E S \in StagingLists, F \in FactLists, D \in DimensionLists :
           dag = sparkify_elt_wap(S, F, D)
    /\ ti = [r \in Runs |-> [t \in dag.tasks |-> "none"]]
    /\ ti_try = [r \in Runs |-> [t \in dag.tasks |-> 0]]
    /\ nruns = 0

runFrame ==
    <<dagVars, config, ds, prod, audit, chain, tries, pc, log, failedAt,
      history, stageVars>>

TiUpstream(t) == { u \in dag.tasks : <<u, t>> \in dag.edges }

\* A run is finished when every task instance of it is.
RunFinished(r) ==
    \A t \in dag.tasks : ti[r][t] \in {"success", "failed", "upstream_failed"}

ActiveRuns == { r \in 1 .. nruns : ~RunFinished(r) }

\* The scheduler creates the next run of the schedule: fewer than
\* max_active_runs runs are active.
RunCreate ==
    /\ nruns + 1 \in Runs
    /\ Cardinality(ActiveRuns) < max_active_runs
    /\ nruns' = nruns + 1
    /\ UNCHANGED <<dag, ti, ti_try, failures, runFrame>>

\* depends_on_past: the instance of the task in the previous run succeeded.
PastMet(r, t) == IF r = 1 THEN TRUE ELSE ti[r - 1][t] = "success"

\* The scheduler starts a try of a task instance of run r: trigger rule
\* all_success and depends_on_past.
TiStart(r, t) ==
    /\ ti[r][t] \in {"none", "up_for_retry"}
    /\ \A u \in TiUpstream(t) : ti[r][u] = "success"
    /\ PastMet(r, t)
    /\ ti' = [ti EXCEPT ![r][t] = "running"]
    /\ ti_try' = [ti_try EXCEPT ![r][t] = @ + 1]
    /\ UNCHANGED <<dag, nruns, failures, runFrame>>

\* execute() returns.
TiSucceed(r, t) ==
    /\ ti[r][t] = "running"
    /\ ti' = [ti EXCEPT ![r][t] = "success"]
    /\ ti_try' = [ti_try EXCEPT ![r][t] = 0]
    /\ UNCHANGED <<dag, nruns, failures, runFrame>>

\* execute() raises and tries are left: retries = 3.
TiRetry(r, t) ==
    /\ ti[r][t] = "running"
    /\ ~IsMarker(t)
    /\ failures < MaxTaskFailures
    /\ ti_try[r][t] <= retries
    /\ ti' = [ti EXCEPT ![r][t] = "up_for_retry"]
    /\ failures' = failures + 1
    /\ UNCHANGED <<dag, nruns, ti_try, runFrame>>

\* execute() raises and the retries are exhausted.
TiFail(r, t) ==
    /\ ti[r][t] = "running"
    /\ ~IsMarker(t)
    /\ failures < MaxTaskFailures
    /\ ti_try[r][t] > retries
    /\ ti' = [ti EXCEPT ![r][t] = "failed"]
    /\ failures' = failures + 1
    /\ UNCHANGED <<dag, nruns, ti_try, runFrame>>

\* all_success with a failed (or upstream_failed) upstream task.
TiUpstreamFailed(r, t) ==
    /\ ti[r][t] = "none"
    /\ \E u \in TiUpstream(t) : ti[r][u] \in {"failed", "upstream_failed"}
    /\ ti' = [ti EXCEPT ![r][t] = "upstream_failed"]
    /\ UNCHANGED <<dag, nruns, ti_try, failures, runFrame>>

NextRuns ==
    \/ RunCreate
    \/ \E r \in 1 .. nruns, t \in dag.tasks : TiStart(r, t)
    \/ \E r \in 1 .. nruns, t \in dag.tasks : TiSucceed(r, t)
    \/ \E r \in 1 .. nruns, t \in dag.tasks : TiRetry(r, t)
    \/ \E r \in 1 .. nruns, t \in dag.tasks : TiFail(r, t)
    \/ \E r \in 1 .. nruns, t \in dag.tasks : TiUpstreamFailed(r, t)

SpecRuns == InitRuns /\ [][NextRuns]_vars

(***************************************************************************)
(* Properties of the DAG run.                                              *)
(***************************************************************************)
\* A try of the task instance has started at some point of the run.
Started(t) == state[t] \in {"running", "up_for_retry", "success", "failed"}

RECURSIVE Reach(_, _)
Reach(S, n) ==
    IF n = 0 THEN S
    ELSE Reach(S \cup { e[2] : e \in { f \in Edges : f[1] \in S } }, n - 1)

\* The tasks downstream of t, directly or not.
Downstream == [t \in Tasks |-> Reach({t}, Cardinality(Tasks)) \ {t}]

ChainTasks(table) == {write_task(table), audit_task(table), publish_task(table)}
FactTasks == UNION { ChainTasks(t) : t \in Range(FACT_CONFIG) }
DimensionTasks == UNION { ChainTasks(t) : t \in Range(DIMENSION_CONFIG) }

\* C4: the start marker has succeeded before any staging task starts; every
\* staging task has succeeded before any fact Write starts; every fact
\* Publish has succeeded before any dimension Write starts; every dimension
\* Publish has succeeded before the end marker runs.
C4_GraphOrder ==
    /\ \A s \in staging_tasks : Started(s) => state[start_task] = "success"
    /\ \A f \in Range(FACT_CONFIG) : Started(write_task(f)) =>
          \A s \in staging_tasks : state[s] = "success"
    /\ \A d \in Range(DIMENSION_CONFIG) : Started(write_task(d)) =>
          \A f \in Range(FACT_CONFIG) : state[publish_task(f)] = "success"
    /\ Started(end_task) =>
          \A d \in Range(DIMENSION_CONFIG) : state[publish_task(d)] = "success"

\* The whole graph ran: every task succeeded, the end marker last.
C4_Witness == \A t \in Tasks : state[t] = "success"

\* C5: once a task has failed for good (retries exhausted), no task
\* downstream of it has started or starts: a failed staging task blocks
\* every fact and dimension task, a failed fact task every dimension task
\* and the end marker.
C5_FailureBlocksDownstream ==
    /\ \A t \in Tasks : state[t] = "failed" =>
          \A d \in Downstream[t] : ~Started(d)
    /\ (\E s \in staging_tasks : state[s] = "failed") =>
          \A d \in FactTasks \cup DimensionTasks \cup {end_task} : ~Started(d)
    /\ (\E f \in FactTasks : state[f] = "failed") =>
          \A d \in DimensionTasks \cup {end_task} : ~Started(d)

\* A fact task failed after its retries and the run is over: everything
\* downstream of it is upstream_failed.
C5_Witness ==
    /\ \E f \in FactTasks :
          /\ state[f] = "failed"
          /\ try_number[f] = retries + 1
          /\ \A d \in Downstream[f] : state[d] = "upstream_failed"
    /\ \A d \in DimensionTasks \cup {end_task} : state[d] = "upstream_failed"

SameTierPairs ==
    { p \in (Range(FACT_CONFIG) \X Range(FACT_CONFIG))
               \cup (Range(DIMENSION_CONFIG) \X Range(DIMENSION_CONFIG)) :
        p[1] # p[2] }

ChainFailed(table) == \E t \in ChainTasks(table) : state[t] = "failed"

\* The task that precedes t in its own chain has succeeded (Write has none).
OwnChainReady(t) ==
    \/ t[1] = "write"
    \/ t[1] = "audit" /\ state[write_task(t[2])] = "success"
    \/ t[1] = "publish" /\ state[audit_task(t[2])] = "success"

\* C6: the failure of one table's chain never stops a sibling chain of the
\* same tier: a sibling task is upstream_failed only through a failure of
\* its own chain, and each sibling task whose predecessor in its own chain
\* succeeded can still be started.
C6_SiblingChainsIndependent ==
    \A p \in SameTierPairs :
        ChainFailed(p[1]) =>
          \A t \in ChainTasks(p[2]) :
            /\ state[t] = "upstream_failed" => ChainFailed(p[2])
            /\ (state[t] \in {"none", "up_for_retry"} /\ OwnChainReady(t))
                  => ENABLED TaskStart(t)

\* One dimension chain failed and a sibling chain published in the same run.
C6_Witness ==
    \E p \in SameTierPairs :
        /\ ChainFailed(p[1])
        /\ \A t \in ChainTasks(p[2]) : state[t] = "success"

(***************************************************************************)
(* Tables.  A column value is NULL or one value: the empty set or a        *)
(* singleton.  A row has a key column id and the run date column dwh_ds    *)
(* every transform query of SqlQueries selects as DATE('{{ ds }}').  A     *)
(* table is a bag of rows.                                                 *)
(***************************************************************************)
NULL == {}
Rows == [id : {NULL} \cup { {i} : i \in Ids }, dwh_ds : { {d} : d \in Dates }]

\* The rows a transform query can return for run date d.
RowsOf(d) == { r \in Rows : r.dwh_ds = {d} }

SeqToBag(s) ==
    [r \in Range(s) |-> Cardinality({ i \in DOMAIN s : s[i] = r })]

\* The bags of at most n rows of R.
BagsUpTo(R, n) == { SeqToBag(s) : s \in UNION { [1 .. k -> R] : k \in 0 .. n } }

\* The rows of table T that satisfy Keep, with their multiplicities.
Where(T, Keep(_)) == [r \in { x \in DOMAIN T : Keep(x) } |-> T[r]]

\* SQL's a = b: true only of two equal values, never of NULL.
SqlEq(a, b) == a # NULL /\ b # NULL /\ a = b

(***************************************************************************)
(* PublishProductionOperator: the statements execute() builds.             *)
(***************************************************************************)
\* Faulty variant: only the rows production does not hold yet are inserted.
insert_sql_new_rows(p, a) == p (+) Where(a, LAMBDA r : r \notin DOMAIN p)

\* insert_sql: INSERT INTO prod.T SELECT * FROM audit.T
insert_sql(p, a) == p (+) a

\* Faulty variant: the delete has no WHERE clause.
delete_partition_sql_all(p, dwh_ds) == EmptyBag

\* delete_partition_sql: DELETE FROM prod.T WHERE dwh_ds = '{dwh_ds}'
delete_partition_sql(p, dwh_ds) == Where(p, LAMBDA r : ~SqlEq(r.dwh_ds, {dwh_ds}))

\* join_condition: prod.T.col = audit.col for every col of pk_columns
join_condition(r, x, pks) == \A i \in DOMAIN pks : SqlEq(r[pks[i]], x[pks[i]])

\* Faulty variant: the merge deletes nothing.
delete_merge_sql_none(p, a, pks) == p

\* delete_merge_sql: DELETE FROM prod.T WHERE EXISTS
\*   (SELECT 1 FROM audit.T audit WHERE join_condition)
delete_merge_sql(p, a, pks) ==
    Where(p, LAMBDA r : ~\E x \in DOMAIN a : join_condition(r, x, pks))

\* Faulty variant: merge without pk_columns is let through.
ConfigurationError_no_pk_check(mode, pks) ==
    mode \notin {"append", "partition_overwrite", "full_refresh", "merge"}

\* The two raise ValueError of execute(): merge without pk_columns, and the
\* final else of the load_mode dispatch.
ConfigurationError(mode, pks) ==
    \/ mode = "merge" /\ pks = <<>>
    \/ mode \notin {"append", "partition_overwrite", "full_refresh", "merge"}

\* Faulty variant: full_refresh does not truncate production first.
PublishStatements_no_truncate(mode) ==
    IF mode \in {"append", "partition_overwrite", "full_refresh", "merge"}
      THEN <<"insert_prod", "truncate_audit", "count_prod">>
      ELSE <<>>

\* Faulty variant: the working table is truncated first.
PublishStatements_truncate_first(mode) ==
    IF mode \in {"append", "partition_overwrite", "full_refresh", "merge"}
      THEN <<"truncate_audit", "count_prod">>
      ELSE <<>>

\* The statements execute() runs, in order, for a load mode.
PublishStatements(mode) ==
    CASE mode = "append" ->
           <<"insert_prod", "truncate_audit", "count_prod">>
      [] mode = "partition_overwrite" ->
           <<"delete_partition", "insert_prod", "truncate_audit", "count_prod">>
      [] mode = "full_refresh" ->
           <<"truncate_prod", "insert_prod", "truncate_audit", "count_prod">>
      [] mode = "merge" ->
           <<"delete_merge", "insert_prod", "truncate_audit", "count_prod">>
      [] OTHER -> <<>>

\* What the task instance becomes when its n-th try raises: retries = 3.
AfterRaise(n) == IF n <= retries THEN "up_for_retry" ELSE "failed"

(***************************************************************************)
(* One table's chain: the task instances write, audit and publish.         *)
(***************************************************************************)
ChainTaskKinds == {"write", "audit", "publish"}

\* The tasks of the chain set upstream of task t by the WAP sequence.
ChainUpstream(t) ==
    { e[1][1] : e \in { f \in WapSequence("table") : f[2][1] = t } }

\* Faulty variant: the trigger rule is not looked at.
Schedulable_no_trigger_rule(t) ==
    /\ chain[t] \in {"none", "up_for_retry"}
    /\ t \in chain.past

\* The scheduler may start a try of t: no try is running, the trigger rule
\* all_success is met and, with depends_on_past, the instance of t in the
\* previous run succeeded (chain.past; every task in the first run).
Schedulable(t) ==
    /\ chain[t] \in {"none", "up_for_retry"}
    /\ \A u \in ChainUpstream(t) : chain[u] = "success"
    /\ t \in chain.past

(***************************************************************************)
(* Publish: the task instance and its execute(), statement by statement.   *)
(* A statement takes effect as a whole or fails without effect.            *)
(***************************************************************************)
\* The scheduler starts a try (Audit succeeded) and execute() dispatches on
\* load_mode: it raises before any statement, or reaches its first one.
PublishStart ==
    /\ Schedulable("publish")
    /\ tries' = tries + 1
    /\ log' = <<>>
    /\ prod0' = prod /\ audit0' = audit
    /\ prodRun' = IF tries = 0 THEN prod ELSE prodRun
    /\ auditRun' = IF tries = 0 THEN audit ELSE auditRun
    /\ IF ConfigurationError(load_mode, pk_columns)
         THEN /\ chain' = [chain EXCEPT !.publish = AfterRaise(tries + 1)]
              /\ pc' = "-"
              /\ failedAt' = "config"
         ELSE /\ chain' = [chain EXCEPT !.publish = "running"]
              /\ pc' = PublishStatements(load_mode)[1]
              /\ failedAt' = "-"
    /\ UNCHANGED <<dagVars, runVars, stageVars, failures, config, ds, prod, audit, publishes,
                   loaded, prodStart, auditStart, audited>>

PublishFrame ==
    UNCHANGED <<dagVars, runVars, stageVars, failures, config, ds, chain, tries, failedAt, history>>

\* redshift.run(delete_partition_sql)
RunDeletePartition ==
    /\ chain.publish = "running" /\ pc = "delete_partition"
    /\ prod' = delete_partition_sql(prod, ds)
    /\ pc' = "insert_prod"
    /\ log' = Append(log, pc)
    /\ UNCHANGED audit
    /\ PublishFrame

\* redshift.run(truncate_sql.format(schema='prod', table=self.table))
RunTruncateProd ==
    /\ chain.publish = "running" /\ pc = "truncate_prod"
    /\ prod' = EmptyBag
    /\ pc' = "insert_prod"
    /\ log' = Append(log, pc)
    /\ UNCHANGED audit
    /\ PublishFrame

\* redshift.run(delete_merge_sql)
RunDeleteMerge ==
    /\ chain.publish = "running" /\ pc = "delete_merge"
    /\ prod' = delete_merge_sql(prod, audit, pk_columns)
    /\ pc' = "insert_prod"
    /\ log' = Append(log, pc)
    /\ UNCHANGED audit
    /\ PublishFrame

\* redshift.run(insert_sql)
RunInsert ==
    /\ chain.publish = "running" /\ pc = "insert_prod"
    /\ prod' = insert_sql(prod, audit)
    /\ pc' = "truncate_audit"
    /\ log' = Append(log, pc)
    /\ UNCHANGED audit
    /\ PublishFrame

\* redshift.run(truncate_sql.format(schema='audit', table=self.table))
RunTruncateAudit ==
    /\ chain.publish = "running" /\ pc = "truncate_audit"
    /\ audit' = EmptyBag
    /\ pc' = "count_prod"
    /\ log' = Append(log, pc)
    /\ UNCHANGED prod
    /\ PublishFrame

\* redshift.get_first(count_sql), the last statement: execute() returns.
RunCount ==
    /\ chain.publish = "running" /\ pc = "count_prod"
    /\ chain' = [chain EXCEPT !.publish = "success"]
    /\ pc' = "-"
    /\ log' = Append(log, pc)
    /\ tries' = 0
    /\ publishes' = publishes + 1
    /\ UNCHANGED <<dagVars, runVars, stageVars, failures, config, ds, prod, audit, failedAt,
                   loaded, prodStart, auditStart, prodRun, auditRun, prod0,
                   audit0, audited>>

\* The statement (or query) the executing operator is about to run fails:
\* execute() raises (Publish logs and re-raises), the try is over.
StatementFails(t) ==
    /\ chain[t] = "running"
    /\ failures < MaxFailures
    /\ failures' = failures + 1
    /\ failedAt' = pc
    /\ pc' = "-"
    /\ chain' = [chain EXCEPT ![t] = AfterRaise(tries)]
    /\ UNCHANGED <<dagVars, runVars, stageVars, config, ds, prod, audit, tries, log, history>>

(***************************************************************************)
(* SpecPublish: Publish on one table whose Write and Audit succeeded (no   *)
(* check configured), from any production and working table contents.      *)
(***************************************************************************)
PublishConfigs ==
    { <<"append", <<>>>>, <<"partition_overwrite", <<>>>>,
      <<"full_refresh", <<>>>>, <<"merge", <<"id">>>>,
      <<"merge", <<"id", "dwh_ds">>>>, <<"merge", <<>>>>,
      <<"upsert", <<"id">>>> }

InitPublish ==
    /\ DagIdle
    /\ RunsIdle
    /\ StageIdle
    /\ failures = 0
    /\ \E c \in PublishConfigs : load_mode = c[1] /\ pk_columns = c[2]
    /\ checks = <<>>
    /\ ds \in Dates
    /\ prod \in BagsUpTo(Rows, MaxProdRows)
    /\ audit \in BagsUpTo(RowsOf(ds), MaxAuditRows)
    /\ chain = [write |-> "success", audit |-> "success", publish |-> "none",
                auditFailure |-> FALSE, past |-> ChainTaskKinds]
    /\ tries = 0 /\ pc = "-" /\ log = <<>> /\ failedAt = "-" /\ publishes = 0
    /\ loaded = audit
    /\ prodStart = prod /\ auditStart = audit
    /\ prodRun = prod /\ auditRun = audit /\ prod0 = prod /\ audit0 = audit
    /\ audited = audit

\* The run is cleared and run again for the same run date: Write reloads
\* the working table with the same rows, Audit passes, Publish is due.
Republish ==
    /\ chain.publish = "success"
    /\ publishes < MaxPublishes
    /\ audit' = loaded
    /\ chain' = [chain EXCEPT !.publish = "none"]
    /\ log' = <<>>
    /\ prodRun' = prod /\ auditRun' = loaded /\ prod0' = prod /\ audit0' = loaded
    /\ audited' = loaded
    /\ UNCHANGED <<dagVars, runVars, stageVars, failures, config, ds, prod, tries, pc, failedAt,
                   publishes, loaded, prodStart, auditStart>>

NextPublish ==
    \/ PublishStart
    \/ RunDeletePartition
    \/ RunTruncateProd
    \/ RunDeleteMerge
    \/ RunInsert
    \/ RunTruncateAudit
    \/ RunCount
    \/ StatementFails("publish")
    \/ Republish

SpecPublish == InitPublish /\ [][NextPublish]_vars

(***************************************************************************)
(* Write: LoadDimensionOperator.execute (LoadFactOperator has the same     *)
(* contract), statement by statement.                                      *)
(***************************************************************************)
\* The scheduler starts a try of Write.  The rows the transform query
\* returns for the run date are fixed by the staged data: they are drawn on
\* the first try of the run.
WriteStart ==
    /\ Schedulable("write")
    /\ chain' = [chain EXCEPT !.write = "running"]
    /\ tries' = tries + 1
    /\ pc' = "truncate"
    /\ log' = <<>>
    /\ failedAt' = "-"
    /\ IF chain.write = "none"
         THEN loaded' \in BagsUpTo(RowsOf(ds), MaxAuditRows)
         ELSE loaded' = loaded
    /\ prod0' = prod /\ audit0' = audit
    /\ UNCHANGED <<dagVars, runVars, stageVars, failures, config, ds, prod, audit, publishes,
                   prodStart, auditStart, prodRun, auditRun, audited>>

WriteFrame ==
    UNCHANGED <<dagVars, runVars, stageVars, failures, config, ds, prod, chain, tries, failedAt,
                history>>

\* Faulty variant: Write does not truncate the working table.
WriteTruncate_skip ==
    /\ chain.write = "running" /\ pc = "truncate"
    /\ audit' = audit
    /\ pc' = "insert"
    /\ log' = Append(log, pc)
    /\ WriteFrame

\* redshift.run(truncate_sql): TRUNCATE TABLE audit.T
WriteTruncate ==
    /\ chain.write = "running" /\ pc = "truncate"
    /\ audit' = EmptyBag
    /\ pc' = "insert"
    /\ log' = Append(log, pc)
    /\ WriteFrame

\* redshift.run(insert_sql): INSERT INTO audit.T {sql_query}
WriteInsert ==
    /\ chain.write = "running" /\ pc = "insert"
    /\ audit' = audit (+) loaded
    /\ pc' = "count"
    /\ log' = Append(log, pc)
    /\ WriteFrame

\* redshift.get_first(count_sql), the last statement: execute() returns.
WriteCount ==
    /\ chain.write = "running" /\ pc = "count"
    /\ chain' = [chain EXCEPT !.write = "success"]
    /\ pc' = "-"
    /\ log' = Append(log, pc)
    /\ tries' = 0
    /\ UNCHANGED <<dagVars, runVars, stageVars, failures, config, ds, prod, audit, failedAt,
                   history>>

(***************************************************************************)
(* Audit: DataQualityOperator.execute, check by check.                     *)
(***************************************************************************)
RECURSIVE Pairs(_, _)
\* <<kind, column>> for every column of cols, in order.
Pairs(kind, cols) ==
    IF cols = <<>> THEN <<>>
    ELSE <<<<kind, Head(cols)>>>> \o Pairs(kind, Tail(cols))

RECURSIVE CheckList(_)
\* for check_type, columns in self.checks.items(): for column in columns
CheckList(cks) ==
    IF cks = <<>> THEN <<>>
    ELSE Pairs(Head(cks)[1], Head(cks)[2]) \o CheckList(Tail(cks))

\* Faulty variant: SELECT COUNT(column) FROM audit.T WHERE column IS NULL
check_not_null_count_column(T, column) ==
    BagCardinality(Where(T, LAMBDA r : r[column] = NULL /\ r[column] # NULL))

\* SELECT COUNT(*) FROM audit.T WHERE column IS NULL
check_not_null(T, column) ==
    BagCardinality(Where(T, LAMBDA r : r[column] = NULL))

\* Faulty variant: SELECT COUNT(*) - COUNT(DISTINCT column) FROM audit.T
check_unique_count_star(T, column) ==
    BagCardinality(T) - Cardinality({ r[column] : r \in DOMAIN T } \ {NULL})

\* SELECT COUNT(column) - COUNT(DISTINCT column) FROM audit.T
check_unique(T, column) ==
    BagCardinality(Where(T, LAMBDA r : r[column] # NULL))
      - Cardinality({ r[column] : r \in DOMAIN T } \ {NULL})

\* SELECT COUNT(*) FROM audit.T WHERE column <= 0
check_greater_than_zero(T, column) ==
    BagCardinality(Where(T, LAMBDA r : \E v \in r[column] : v <= 0))

\* _execute_check: the verdict of one check on working table T.
execute_check(T, check_type, column) ==
    CASE check_type = "not_null" ->
           IF check_not_null(T, column) > 0 THEN "failed" ELSE "passed"
      [] check_type = "unique" ->
           IF check_unique(T, column) > 0 THEN "failed" ELSE "passed"
      [] check_type = "greater_than_zero" ->
           IF check_greater_than_zero(T, column) > 0 THEN "failed" ELSE "passed"
      [] OTHER -> "unknown"

\* The scheduler starts a try of Audit.
AuditStart ==
    /\ Schedulable("audit")
    /\ chain' = [chain EXCEPT !.audit = "running"]
    /\ tries' = tries + 1
    /\ pc' = "check"
    /\ log' = <<>>
    /\ failedAt' = "-"
    /\ prod0' = prod /\ audit0' = audit
    /\ UNCHANGED <<dagVars, runVars, stageVars, failures, config, ds, prod, audit, publishes,
                   loaded, prodStart, auditStart, prodRun, auditRun, audited>>

\* Faulty variant: a check that fails is noted and the iteration goes on.
AuditCheck_exhaustive ==
    /\ chain.audit = "running" /\ pc = "check"
    /\ Len(log) < Len(CheckList(checks))
    /\ LET c == CheckList(checks)[Len(log) + 1]
           verdict == execute_check(audit, c[1], c[2])
       IN  /\ log' = Append(log, c)
           /\ chain' = [chain EXCEPT !.auditFailure = @ \/ verdict # "passed"]
           /\ UNCHANGED <<pc, failedAt>>
    /\ UNCHANGED <<dagVars, runVars, stageVars, failures, config, ds, prod,
                   audit, tries, history>>

\* The next check of the iteration: it passes, or _execute_check raises
\* ValueError for a data quality failure or for an unknown check type.
AuditCheck ==
    /\ chain.audit = "running" /\ pc = "check"
    /\ Len(log) < Len(CheckList(checks))
    /\ LET c == CheckList(checks)[Len(log) + 1]
           verdict == execute_check(audit, c[1], c[2])
       IN  IF verdict = "passed"
             THEN /\ log' = Append(log, c)
                  /\ UNCHANGED <<chain, pc, failedAt>>
             ELSE /\ chain' = [chain EXCEPT
                                 !.audit = AfterRaise(tries),
                                 !.auditFailure = @ \/ verdict = "failed"]
                  /\ pc' = "-"
                  /\ failedAt' = IF verdict = "failed" THEN "check" ELSE "config"
                  /\ UNCHANGED log
    /\ UNCHANGED <<dagVars, runVars, stageVars, failures, config, ds, prod, audit, tries, history>>

\* Every check passed: execute() returns.
AuditDone ==
    /\ chain.audit = "running" /\ pc = "check"
    /\ Len(log) = Len(CheckList(checks))
    /\ chain' = [chain EXCEPT !.audit = "success"]
    /\ pc' = "-"
    /\ tries' = 0
    /\ audited' = audit
    /\ UNCHANGED <<dagVars, runVars, stageVars, failures, config, ds, prod, audit, log, failedAt,
                   publishes, loaded, prodStart, auditStart, prodRun, auditRun,
                   prod0, audit0>>

(***************************************************************************)
(* SpecChain: the chain of one table over the runs of Dates, from empty    *)
(* tables.  max_active_runs = 1: a run begins when the previous one is     *)
(* over.                                                                   *)
(***************************************************************************)
\* all_success with a failed or upstream_failed upstream task.
ChainUpstreamFailed(t) ==
    /\ chain[t] = "none"
    /\ \E u \in ChainUpstream(t) : chain[u] \in {"failed", "upstream_failed"}
    /\ chain' = [chain EXCEPT ![t] = "upstream_failed"]
    /\ UNCHANGED <<dagVars, runVars, stageVars, failures, config, ds, prod, audit, tries, pc, log,
                   failedAt, history>>

\* Nothing of the run is running or can still be scheduled.
RunOver ==
    \A t \in ChainTaskKinds :
        /\ chain[t] \notin {"running", "up_for_retry"}
        /\ ~Schedulable(t)
        /\ ~ENABLED ChainUpstreamFailed(t)

\* The next run begins, for the next date.  depends_on_past: only the
\* tasks whose instance succeeded in this run can be scheduled in it.
NextRun ==
    /\ RunOver
    /\ ds + 1 \in Dates
    /\ ds' = ds + 1
    /\ chain' = [write |-> "none", audit |-> "none", publish |-> "none",
                 auditFailure |-> FALSE,
                 past |-> { t \in ChainTaskKinds : chain[t] = "success" }]
    /\ tries' = 0 /\ pc' = "-" /\ log' = <<>> /\ failedAt' = "-"
    /\ loaded' = EmptyBag
    /\ prodStart' = prod /\ auditStart' = audit
    /\ prodRun' = prod /\ auditRun' = audit /\ prod0' = prod /\ audit0' = audit
    /\ audited' = EmptyBag
    /\ UNCHANGED <<dagVars, runVars, stageVars, failures, config, prod, audit, publishes>>

\* Table configurations: those of pipeline_config.py on the key column
\* (fct_songplays, dim_users, dim_songs), one without checks, one with the
\* unique check alone, and the three configuration errors.
ChainConfigs ==
    { <<"partition_overwrite", <<>>,
        << <<"unique", <<"id">>>>, <<"not_null", <<"id", "dwh_ds">>>> >> >>,
      <<"merge", <<"id">>,
        << <<"unique", <<"id">>>>, <<"not_null", <<"id">>>> >> >>,
      <<"full_refresh", <<>>,
        << <<"unique", <<"id">>>>, <<"not_null", <<"id">>>>,
           <<"greater_than_zero", <<"id">>>> >> >>,
      <<"append", <<>>, <<>> >>,
      <<"append", <<>>, << <<"unique", <<"id">>>> >> >>,
      <<"merge", <<>>, << <<"not_null", <<"id">>>> >> >>,
      <<"upsert", <<"id">>, << <<"not_null", <<"id">>>> >> >>,
      <<"full_refresh", <<>>,
        << <<"not_null", <<"id">>>>, <<"positive", <<"id">>>> >> >> }

InitChain ==
    /\ DagIdle
    /\ RunsIdle
    /\ StageIdle
    /\ failures = 0
    /\ \E c \in ChainConfigs :
           load_mode = c[1] /\ pk_columns = c[2] /\ checks = c[3]
    /\ ds = 1
    /\ prod = EmptyBag /\ audit = EmptyBag
    /\ chain = [write |-> "none", audit |-> "none", publish |-> "none",
                auditFailure |-> FALSE, past |-> ChainTaskKinds]
    /\ tries = 0 /\ pc = "-" /\ log = <<>> /\ failedAt = "-" /\ publishes = 0
    /\ loaded = EmptyBag
    /\ prodStart = EmptyBag /\ auditStart = EmptyBag
    /\ prodRun = EmptyBag /\ auditRun = EmptyBag
    /\ prod0 = EmptyBag /\ audit0 = EmptyBag
    /\ audited = EmptyBag

NextChain ==
    \/ WriteStart
    \/ WriteTruncate
    \/ WriteInsert
    \/ WriteCount
    \/ AuditStart
    \/ AuditCheck
    \/ AuditDone
    \/ PublishStart
    \/ RunDeletePartition
    \/ RunTruncateProd
    \/ RunDeleteMerge
    \/ RunInsert
    \/ RunTruncateAudit
    \/ RunCount
    \/ \E t \in ChainTaskKinds : StatementFails(t)
    \/ \E t \in ChainTaskKinds : ChainUpstreamFailed(t)
    \/ NextRun

SpecChain == InitChain /\ [][NextChain]_vars

(***************************************************************************)
(* Staging: StageToRedshiftOperator.execute, statement by statement.       *)
(* A staging row has the column ts, epoch milliseconds or NULL.  A run     *)
(* date is the number of its day since 1970-01-01.                         *)
(***************************************************************************)
\* Values of ts: the first and the last millisecond of day 1, the first of
\* day 2 and the first of day 3.
Timestamps == {86400000, 172799999, 172800000, 259200000}
StagingRows == [ts : {NULL} \cup { {t} : t \in Timestamps }]

\* DATE(TIMESTAMP 'epoch' + ts/1000 * INTERVAL '1 second'): NULL for NULL.
derived_date(ts) == { (t \div 1000) \div 86400 : t \in ts }

\* Faulty variant: the rows of the run date and of every earlier date go.
delete_sql_up_to_date(s, execution_date) ==
    Where(s, LAMBDA r : ~\E d \in derived_date(r.ts) : d <= execution_date)

\* delete_sql: DELETE FROM staging.T WHERE DATE(...) = '{execution_date}'
delete_sql(s, execution_date) ==
    Where(s, LAMBDA r : ~SqlEq(derived_date(r.ts), {execution_date}))

\* copy_sql: COPY staging.T FROM '{s3_path}' ...
copy_sql(s, rows) == s (+) rows

\* The scheduler starts a try (start_task succeeded) and execute() picks
\* the deletion strategy.
StageStart ==
    /\ chain.stage \in {"none", "up_for_retry"}
    /\ chain' = [chain EXCEPT !.stage = "running"]
    /\ tries' = tries + 1
    /\ pc' = IF delete_by_date THEN "delete_by_date" ELSE "truncate_staging"
    /\ log' = <<>>
    /\ failedAt' = "-"
    /\ UNCHANGED <<dagVars, runVars, stageVars, failures, config, ds, prod, audit,
                   history>>

StageFrame ==
    UNCHANGED <<dagVars, runVars, delete_by_date, s3_rows, stagingStart, failures,
                config, ds, prod, audit, tries, failedAt, history>>

\* redshift.run(delete_sql)
StageDelete ==
    /\ chain.stage = "running" /\ pc = "delete_by_date"
    /\ staging' = delete_sql(staging, ds)
    /\ pc' = "copy"
    /\ log' = Append(log, pc)
    /\ UNCHANGED chain
    /\ StageFrame

\* redshift.run(f'TRUNCATE TABLE staging.{self.table}')
StageTruncate ==
    /\ chain.stage = "running" /\ pc = "truncate_staging"
    /\ staging' = EmptyBag
    /\ pc' = "copy"
    /\ log' = Append(log, pc)
    /\ UNCHANGED chain
    /\ StageFrame

\* redshift.run(copy_sql), the last statement: execute() returns.
StageCopy ==
    /\ chain.stage = "running" /\ pc = "copy"
    /\ staging' = copy_sql(staging, s3_rows)
    /\ chain' = [chain EXCEPT !.stage = "success"]
    /\ pc' = "-"
    /\ log' = Append(log, pc)
    /\ UNCHANGED <<dagVars, runVars, delete_by_date, s3_rows, stagingStart, failures,
                   config, ds, prod, audit, failedAt, history>>
    /\ tries' = 0

(***************************************************************************)
(* SpecStage: the staging task of one table in one run, from any staging   *)
(* table contents, next to a production and a working table.               *)
(***************************************************************************)
InitStage ==
    /\ DagIdle
    /\ RunsIdle
    /\ failures = 0
    /\ load_mode = "-" /\ pk_columns = <<>> /\ checks = <<>>
    /\ ds \in Dates
    /\ \E S \in {{}, RowsOf(ds)} : prod = SetToBag(S) /\ audit = SetToBag(S)
    /\ chain = [stage |-> "none"]
    /\ tries = 0 /\ pc = "-" /\ log = <<>> /\ failedAt = "-" /\ publishes = 0
    /\ loaded = EmptyBag
    /\ prodStart = prod /\ auditStart = audit
    /\ prodRun = prod /\ auditRun = audit /\ prod0 = prod /\ audit0 = audit
    /\ audited = EmptyBag
    /\ delete_by_date \in BOOLEAN
    /\ staging \in BagsUpTo(StagingRows, MaxStagingRows)
    /\ s3_rows \in BagsUpTo(StagingRows, MaxCopyRows)
    /\ stagingStart = staging

NextStage ==
    \/ StageStart
    \/ StageDelete
    \/ StageTruncate
    \/ StageCopy
    \/ StatementFails("stage")

SpecStage == InitStage /\ [][NextStage]_vars

(***************************************************************************)
(* Properties of the chain.                                                *)
(***************************************************************************)
\* A try of task t of the chain has started in this run.
ChainStarted(t) == chain[t] \in {"running", "up_for_retry", "success", "failed"}

\* C1: in every run Audit starts only after Write succeeded and Publish only
\* after Audit succeeded; once a check of the Audit failed, Publish does not
\* execute in that run.
C1_WriteAuditPublishOrder ==
    /\ ChainStarted("audit") => chain.write = "success"
    /\ ChainStarted("publish") => chain.write = "success" /\ chain.audit = "success"
    /\ chain.auditFailure => ~ChainStarted("publish")

\* Write loaded rows, a check failed on every try of Audit, and Publish is
\* upstream_failed.
C1_Witness ==
    /\ chain.write = "success" /\ audit # EmptyBag
    /\ chain.auditFailure /\ chain.audit = "failed"
    /\ chain.publish = "upstream_failed"

\* C8: when a configuration error is raised (unknown check kind, unknown
\* load mode, merge without pk_columns), neither the working table nor the
\* production table has been changed in the run.
C8_ConfigurationErrorBeforeData ==
    (failedAt = "config" /\ \E t \in ChainTaskKinds :
                               chain[t] \in {"up_for_retry", "failed"})
        => audit = auditStart /\ prod = prodStart

(***************************************************************************)
(* Properties of Publish.                                                  *)
(***************************************************************************)
\* A try of Publish has just raised.
PublishRaised == chain.publish \in {"up_for_retry", "failed"}

\* The statements of sequence q that precede statement x.
Before(q, x) ==
    SubSeq(q, 1, (CHOOSE i \in DOMAIN q : q[i] = x) - 1)

\* Production after a Publish in which no statement fails.
PublishResult(mode, pks, d, p, a) ==
    CASE mode = "append" -> p (+) a
      [] mode = "partition_overwrite" ->
           Where(p, LAMBDA r : r.dwh_ds # {d}) (+) a
      [] mode = "full_refresh" -> a
      [] mode = "merge" ->
           Where(p, LAMBDA r :
               ~\E x \in DOMAIN a :
                   \A i \in DOMAIN pks :
                       r[pks[i]] # NULL /\ r[pks[i]] = x[pks[i]]) (+) a
      [] OTHER -> p

\* merge without pk_columns, or a load_mode that is none of the four.
BadLoadConfig ==
    \/ load_mode = "merge" /\ Len(pk_columns) = 0
    \/ /\ load_mode # "append" /\ load_mode # "merge"
       /\ load_mode # "partition_overwrite" /\ load_mode # "full_refresh"

\* C2: whenever execute() of Publish has raised, whichever statement failed,
\* no later statement has been run and the working table holds the rows it
\* held when execute() began.
C2_RaiseLeavesWorkingTable ==
    PublishRaised =>
        /\ audit = audit0
        /\ log = IF failedAt = "config" THEN <<>>
                 ELSE Before(PublishStatements(load_mode), failedAt)

\* C3: when a Publish task instance has succeeded, after a failed try or
\* not, production is what one failure-free Publish of the audited working
\* table makes of the production table the instance found.
C3_ExactlyOnceUnderRetry ==
    chain.publish = "success" =>
        prod = PublishResult(load_mode, pk_columns, ds, prodRun, auditRun)

\* C7: with merge and no pk_columns, or with an unknown load_mode, execute()
\* raises before any statement: no statement is ever run, Publish never
\* succeeds, and production and working table stay as they were.
C7_ConfigurationErrorBeforeSql ==
    BadLoadConfig =>
        /\ log = <<>> /\ pc = "-"
        /\ chain.publish \in {"none", "up_for_retry", "failed"}
        /\ PublishRaised => failedAt = "config"
        /\ prod = prodStart /\ audit = auditStart

\* Publish in merge mode without pk_columns has raised on every try, over
\* non-empty tables.
C7_Witness ==
    /\ load_mode = "merge" /\ pk_columns = <<>>
    /\ chain.publish = "failed" /\ failedAt = "config"
    /\ prod # EmptyBag /\ audit # EmptyBag

\* No row of table T has NULL in a column of pks.
NoNullKey(T, pks) == \A r \in DOMAIN T : \A i \in DOMAIN pks : r[pks[i]] # NULL

\* The second (or later) publication of the same rows in merge mode is done.
MergedAgain ==
    /\ load_mode = "merge" /\ pk_columns # <<>>
    /\ chain.publish = "success" /\ publishes >= 2

\* C9 as claimed: for any working table contents, publishing them again in
\* merge mode leaves production as the first publication left it, each
\* published row held as often as the working table held it.
C9_MergeIdempotent ==
    MergedAgain =>
        /\ prod = prodRun
        /\ \A r \in DOMAIN loaded : CopiesIn(r, prod) = CopiesIn(r, loaded)

\* C9 amended: the same, for working table contents with no NULL in a
\* column of pk_columns.
C9_MergeIdempotentNoNullKey ==
    (MergedAgain /\ NoNullKey(loaded, pk_columns)) =>
        /\ prod = prodRun
        /\ \A r \in DOMAIN loaded : CopiesIn(r, prod) = CopiesIn(r, loaded)

\* Rows with keys were merged twice into a production table that held a row
\* with one of their keys and a row with none of them.
C9_Witness ==
    /\ MergedAgain /\ NoNullKey(loaded, pk_columns)
    /\ loaded # EmptyBag
    /\ \E r \in DOMAIN prodStart :
           \E x \in DOMAIN loaded : join_condition(r, x, pk_columns)
    /\ \E r \in DOMAIN prodStart :
           \A x \in DOMAIN loaded : ~join_condition(r, x, pk_columns)

\* C10: after k failure-free publications of the same rows in append mode,
\* production holds every row as often as before plus k times as often as
\* the working table held it: twice after two, and no row is lost.
C10_AppendDoubles ==
    (load_mode = "append" /\ chain.publish = "success" /\ failures = 0) =>
        \A r \in Rows :
            CopiesIn(r, prod) =
                CopiesIn(r, prodStart) + publishes * CopiesIn(r, loaded)

\* The same rows were appended twice to a non-empty production table.
C10_Witness ==
    /\ load_mode = "append" /\ chain.publish = "success" /\ failures = 0
    /\ publishes = 2
    /\ loaded # EmptyBag /\ prodStart # EmptyBag
    /\ BagCardinality(prod) = BagCardinality(prodStart) + 2 * BagCardinality(loaded)

\* The rows of table T tagged with run date d, and the others.
Partition(T, d) == Where(T, LAMBDA r : r.dwh_ds = {d})
OtherPartitions(T, d) == Where(T, LAMBDA r : r.dwh_ds # {d})

\* C11: in partition_overwrite mode for run date ds, the production rows
\* tagged with another date are at every moment the ones production held
\* before the publish, and when an execution of Publish has succeeded the
\* production rows tagged ds are exactly the rows the working table held when
\* that execution began.
C11_PartitionOverwriteFrame ==
    load_mode = "partition_overwrite" =>
        /\ OtherPartitions(prod, ds) = OtherPartitions(prodStart, ds)
        /\ chain.publish = "success" => Partition(prod, ds) = audit0

\* A partition_overwrite publish succeeded over a production table that held
\* a row of the run date and a row of another date, with working rows that
\* differ from the replaced ones.
C11_Witness ==
    /\ load_mode = "partition_overwrite" /\ chain.publish = "success"
    /\ Partition(prodStart, ds) # EmptyBag
    /\ OtherPartitions(prodStart, ds) # EmptyBag
    /\ audit0 # EmptyBag /\ audit0 # Partition(prodStart, ds)

\* C12: when an execution of Publish in full_refresh mode has succeeded,
\* production holds exactly the rows the working table held when the
\* execution began, each as often: no earlier production row is left,
\* whatever its run date.
C12_FullRefreshReplaces ==
    (load_mode = "full_refresh" /\ chain.publish = "success") =>
        /\ prod = audit0
        /\ \A r \in DOMAIN prodStart : CopiesIn(r, prod) = CopiesIn(r, audit0)

\* A full_refresh publish succeeded over a production table that held rows
\* of the run date and of another date, none of them in the working table.
C12_Witness ==
    /\ load_mode = "full_refresh" /\ chain.publish = "success"
    /\ Partition(prodStart, ds) # EmptyBag
    /\ OtherPartitions(prodStart, ds) # EmptyBag
    /\ audit0 # EmptyBag
    /\ \A r \in DOMAIN prodStart : r \notin DOMAIN audit0

\* C13: in every load mode the working table is empty whenever Publish has
\* succeeded, an execution truncates it only after its insert into
\* production, and until that truncate the working table holds the rows it
\* held when the execution began.
C13_TruncateAfterInsert ==
    /\ chain.publish = "success" => audit = EmptyBag
    /\ \A i \in DOMAIN log :
           log[i] = "truncate_audit" =>
               \E j \in 1 .. i - 1 : log[j] = "insert_prod"
    /\ (chain.publish = "running" /\ "truncate_audit" \notin Range(log)) =>
           audit = audit0

\* A merge publish of a non-empty working table succeeded: the insert, then
\* the truncate, and the working table is empty.
C13_Witness ==
    /\ load_mode = "merge" /\ chain.publish = "success"
    /\ audit0 # EmptyBag /\ audit = EmptyBag
    /\ log = <<"delete_merge", "insert_prod", "truncate_audit", "count_prod">>

\* C14: every step that adds rows to production is taken with the Audit of
\* the run passed and adds no row more often than the working table held it
\* when that Audit passed; and between the successful Audit and the end of
\* the run the only step that changes the working table is Publish's own
\* truncate, after its insert.
C14_OnlyValidatedRows ==
    [][ /\ \A r \in Rows :
               CopiesIn(r, prod') > CopiesIn(r, prod) =>
                   /\ chain.audit = "success"
                   /\ CopiesIn(r, prod') - CopiesIn(r, prod)
                          <= CopiesIn(r, audited)
        /\ (chain.audit = "success" /\ audit' # audit) =>
               /\ chain.publish = "running" /\ pc = "truncate_audit"
               /\ "insert_prod" \in Range(log)
               /\ audit = audited
      ]_vars

\* With checks configured, Audit passed on a non-empty working table and
\* Publish succeeded: production holds the audited rows.
C14_Witness ==
    /\ checks # <<>> /\ audited # EmptyBag
    /\ chain.audit = "success" /\ chain.publish = "success"
    /\ \A r \in DOMAIN audited : CopiesIn(r, prod) >= CopiesIn(r, audited)

\* A try of Audit has just raised for an unknown check type.
AuditRaisedUnknown ==
    chain.audit \in {"up_for_retry", "failed"} /\ failedAt = "config"

\* C15: when Audit has raised for an unknown check type, wherever that type
\* stands among the configured checks, no check has been executed by that
\* execute().
C15_UnknownCheckBeforeAnyCheck ==
    AuditRaisedUnknown => log = <<>>

\* C16: with checks configured, Audit never passes on a working table that
\* holds zero rows.
C16_EmptyTableFailsAudit ==
    (checks # <<>> /\ chain.audit = "success") => audited # EmptyBag

\* Every configured check is a not_null check.
OnlyNotNull ==
    checks # <<>> /\ \A i \in DOMAIN checks : checks[i][1] = "not_null"

\* C17: when a Write whose transform query returned zero rows has succeeded,
\* the working table is empty whatever it held before, and not_null checks
\* over it pass: no check of an Audit configured with not_null checks only
\* fails.
C17_EmptyWriteTruncates ==
    (chain.write = "success" /\ loaded = EmptyBag) =>
        /\ audit = EmptyBag
        /\ \A c \in {"id", "dwh_ds"} :
               execute_check(audit, "not_null", c) = "passed"
        /\ OnlyNotNull => ~chain.auditFailure

\* The working table held rows when the run began, the Write of the run
\* returned zero rows and the not_null check of the Audit passed.
C17_Witness ==
    /\ auditStart # EmptyBag /\ loaded = EmptyBag
    /\ chain.write = "success" /\ audit = EmptyBag
    /\ OnlyNotNull /\ chain.audit = "success"
    /\ log = <<<<"not_null", "id">>>>

\* The only configured check is check_type on column id.
OnlyCheck(check_type) == checks = << <<check_type, <<"id">>>> >>

\* The rows of table T whose column holds value v (NULL included).
Occurrences(T, column, v) == BagCardinality(Where(T, LAMBDA r : r[column] = v))

\* C18: with not_null on column id as the only check, a check of the Audit
\* fails only on a working table with a row whose id is NULL, and the Audit
\* passes only on a working table with no such row.
C18_NotNullVerdict ==
    OnlyCheck("not_null") =>
        /\ chain.auditFailure => Occurrences(audit, "id", NULL) > 0
        /\ chain.audit = "success" => Occurrences(audited, "id", NULL) = 0

\* The not_null check failed on every try over a working table with a row
\* whose id is NULL and a row whose id is not.
C18_Witness ==
    /\ OnlyCheck("not_null")
    /\ chain.auditFailure /\ chain.audit = "failed"
    /\ Occurrences(audit, "id", NULL) = 1
    /\ BagCardinality(audit) = 2

\* The not_null check passed on a working table with rows.
C18_WitnessPass ==
    /\ OnlyCheck("not_null")
    /\ chain.audit = "success" /\ audited # EmptyBag

\* The values of a column of table T (NULL included) held by more than one
\* row.
Duplicated(T, column) ==
    { v \in { r[column] : r \in DOMAIN T } : Occurrences(T, column, v) > 1 }

\* count(C) - count(distinct C) with the NULLs counted by count(C) and
\* collapsed into one value under distinct.
CountingNulls(T, column) ==
    BagCardinality(T) - Cardinality({ r[column] : r \in DOMAIN T })

\* C19 as claimed: with unique on column id as the only check, the verdict
\* is that of count - count distinct > 0 with NULLs counted and collapsed: a
\* check of the Audit fails only when some value, NULL included, is held by
\* more than one row, and the Audit passes only when no value, NULL
\* included, is.
C19_UniqueCountsNulls ==
    OnlyCheck("unique") =>
        /\ chain.auditFailure =>
               CountingNulls(audit, "id") > 0 /\ Duplicated(audit, "id") # {}
        /\ chain.audit = "success" =>
               CountingNulls(audited, "id") = 0 /\ Duplicated(audited, "id") = {}

\* C19 amended: the NULLs are counted by neither count.  A check of the
\* Audit fails only when some value other than NULL is held by more than one
\* row, and the Audit passes only when no value other than NULL is, however
\* many rows hold NULL.
C19_UniqueIgnoresNulls ==
    OnlyCheck("unique") =>
        /\ chain.auditFailure => Duplicated(audit, "id") \ {NULL} # {}
        /\ chain.audit = "success" => Duplicated(audited, "id") \ {NULL} = {}

\* The unique check failed on every try over a working table in which two
\* rows hold the same id.
C19_Witness ==
    /\ OnlyCheck("unique")
    /\ chain.auditFailure /\ chain.audit = "failed"
    /\ Duplicated(audit, "id") \ {NULL} # {}

\* The unique check passed over a working table in which two rows hold NULL.
C19_WitnessNulls ==
    /\ OnlyCheck("unique")
    /\ chain.audit = "success"
    /\ Occurrences(audited, "id", NULL) = 2

\* The staging rows the deletion strategy of the configuration removes for
\* run date d: with delete_by_date those whose ts falls on day d, else all.
Removed(r, d) ==
    delete_by_date =>
        \E t \in r.ts : 86400000 * d <= t /\ t < 86400000 * (d + 1)

\* The staging table held, of each row, as many as stagingStart held, none of
\* a removed one, and as many more as the COPY loads.
StagingIs(removed, copied) ==
    \A r \in StagingRows :
        CopiesIn(r, staging) =
            (IF removed /\ Removed(r, ds) THEN 0 ELSE CopiesIn(r, stagingStart))
              + (IF copied THEN CopiesIn(r, s3_rows) ELSE 0)

\* C20: the staging task touches neither the production nor the working
\* table; until its first statement has run the staging table is as the run
\* found it; between that statement and the COPY it holds the rows the run
\* found less those of the run date (delete_by_date) or none (otherwise);
\* and when the task has succeeded it holds those rows and the rows loaded.
C20_StagingDeletesThenLoads ==
    /\ prod = prodStart /\ audit = auditStart
    /\ (chain.stage = "none" \/ (tries = 1 /\ log = <<>>)) =>
           StagingIs(FALSE, FALSE)
    /\ (chain.stage = "running" /\ pc = "copy") => StagingIs(TRUE, FALSE)
    /\ chain.stage = "success" => StagingIs(TRUE, TRUE)

\* With delete_by_date, the staging task succeeded over a staging table that
\* held a row of the run date and a row of another date, and loaded rows.
C20_Witness ==
    /\ delete_by_date /\ chain.stage = "success"
    /\ \E r \in DOMAIN stagingStart : Removed(r, ds)
    /\ \E r \in DOMAIN stagingStart : ~Removed(r, ds) /\ r.ts # NULL
    /\ s3_rows # EmptyBag
    /\ prod # EmptyBag

\* Without delete_by_date, the staging task succeeded over a staging table
\* that held rows, and loaded rows.
C20_WitnessTruncate ==
    /\ ~delete_by_date /\ chain.stage = "success"
    /\ stagingStart # EmptyBag /\ s3_rows # EmptyBag

(***************************************************************************)
(* Properties of the scheduler over runs.                                  *)
(***************************************************************************)
\* The tables the statements of a task write: the staging task its staging
\* table, Write the working table, Publish the production and the working
\* table; Audit only reads, the markers execute nothing.
Writes(t) ==
    CASE t[1] = "stage" -> { <<"staging", t[2]>> }
      [] t[1] = "write" -> { <<"audit", t[2]>> }
      [] t[1] = "publish" -> { <<"prod", t[2]>>, <<"audit", t[2]>> }
      [] OTHER -> {}

\* The task instances that are executing.
Executing == { x \in Runs \X dag.tasks : ti[x[1]][x[2]] = "running" }

\* C21: no two task instances, of one run or of two, that write a same
\* staging, working or production table are executing at the same time.
C21_NoConcurrentWriters ==
    \A x \in Executing, y \in Executing :
        x # y => Writes(x[2]) \cap Writes(y[2]) = {}

\* In the second run, after a failed try, the Write of one dimension chain
\* and the Publish of another are executing at once.
C21_Witness ==
    /\ nruns = 2 /\ failures > 0
    /\ <<2, write_task("dim_users")>> \in Executing
    /\ <<2, publish_task("dim_songs")>> \in Executing

\* A try of the task instance of run r has started.
TiStarted(r, t) ==
    ti[r][t] \in {"running", "up_for_retry", "success", "failed"}

\* C22: whatever the three configuration lists, an empty one included, in
\* every run no Write (fact or dimension) has started unless every staging
\* task of the run has succeeded, and no dimension Write unless every fact
\* chain of the run has published.
C22_WritesAfterStaging ==
    \A r \in Runs, t \in dag.tasks :
        (t[1] = "write" /\ TiStarted(r, t)) =>
            /\ \A s \in Range(dag.staging_config) :
                   ti[r][create_staging_tasks(s)] = "success"
            /\ t[2] \in Range(dag.dimension_config) =>
                   \A f \in Range(dag.fact_config) :
                       ti[r][publish_task(f)] = "success"

(***************************************************************************)
(* Properties of the chain over runs.                                      *)
(***************************************************************************)
\* The table is published in merge mode on the key id and its Audit
\* enforces unique and not_null on that key.
MergeOnAuditedKey ==
    /\ load_mode = "merge" /\ pk_columns = <<"id">>
    /\ <<"unique", "id">> \in Range(CheckList(checks))
    /\ <<"not_null", "id">> \in Range(CheckList(checks))

\* No two rows of table T share their values in the columns pks.
UniqueKey(T, pks) ==
    /\ \A r \in DOMAIN T : CopiesIn(r, T) = 1
    /\ \A r \in DOMAIN T, x \in DOMAIN T :
           r # x => \E i \in DOMAIN pks : r[pks[i]] # x[pks[i]]

\* C23: for a table merged on a key its Audit checks unique and not_null,
\* production, empty at first, holds no two rows with the same key at any
\* moment of any sequence of runs, failed statements and retries included.
C23_MergeKeepsKeyUnique ==
    MergeOnAuditedKey => UniqueKey(prod, pk_columns)

\* In the second run, after a failed statement, the merge has replaced a
\* production row of the first run by the row of the same key and kept
\* another.
C23_Witness ==
    /\ MergeOnAuditedKey /\ ds = 2 /\ failures > 0
    /\ chain.publish = "success"
    /\ \E r \in DOMAIN prodStart :
           \E x \in DOMAIN prod : x.id = r.id /\ x.dwh_ds = {2}
    /\ \E r \in DOMAIN prodStart : r \in DOMAIN prod

(***************************************************************************)
(* Properties of the Audit.                                                *)
(***************************************************************************)
\* The log is that of the Audit of the run: Publish has not started.
AuditPhase ==
    ChainStarted("audit") /\ chain.publish \in {"none", "upstream_failed"}

\* The configured checks, <<kind, column>>.
Configured ==
    UNION { { <<checks[i][1], checks[i][2][j]>> : j \in DOMAIN checks[i][2] } :
              i \in DOMAIN checks }

\* Check a comes before check b in the configuration's iteration order:
\* its kind is configured earlier, or they are of one kind and its column is
\* listed earlier.
Precedes(a, b) ==
    LET ka == CHOOSE i \in DOMAIN checks : checks[i][1] = a[1]
        kb == CHOOSE i \in DOMAIN checks : checks[i][1] = b[1]
        ca == CHOOSE j \in DOMAIN checks[ka][2] : checks[ka][2][j] = a[2]
        cb == CHOOSE j \in DOMAIN checks[kb][2] : checks[kb][2][j] = b[2]
    IN  ka < kb \/ (ka = kb /\ ca < cb)

\* C24: the checks that were executed and passed were executed in the
\* configuration's iteration order with none skipped; no check was executed
\* after one that does not pass; and the Audit has passed only with every
\* configured check executed and passed.
C24_AuditShortCircuits ==
    AuditPhase =>
        /\ \A i \in DOMAIN log, j \in DOMAIN log :
               i < j => Precedes(log[i], log[j])
        /\ \A b \in Range(log), a \in Configured :
               Precedes(a, b) => a \in Range(log)
        /\ \A a \in Configured :
               execute_check(audit, a[1], a[2]) # "passed" =>
                   /\ a \notin Range(log)
                   /\ \A b \in Range(log) : Precedes(b, a)
        /\ chain.audit = "success" => Range(log) = Configured

\* The second of three configured checks failed on every try: the first
\* was executed, the third never.
C24_Witness ==
    /\ AuditPhase /\ chain.auditFailure /\ chain.audit = "failed"
    /\ Len(log) = 1 /\ Cardinality(Configured) = 3
    /\ execute_check(audit, "not_null", "id") = "failed"

====
